---- MODULE Spec2Model ----
(***************************************************************************)
(* Smart Vendor Management System (src/app.py): the CSV stores, the        *)
(* Streamlit sessions of the three roles, the handlers of their buttons    *)
(* and the proposal ranking computed by the Analyze handler.               *)
(*                                                                         *)
(* A script run of a session reads VENDORS_FILE into a DataFrame at the top *)
(* of its dashboard and then executes one handler, which tests its         *)
(* conditions on that DataFrame and, where the code calls                  *)
(* to_csv(VENDORS_FILE), writes the whole DataFrame back.  A run is either *)
(* one step (the handler reads the file as it is), or two: the load, after *)
(* which other sessions complete runs of their own, and then the handler   *)
(* on the DataFrame loaded before.                                         *)
(*                                                                         *)
(* A proposal's identifier is its row label; rows are numbered from 1      *)
(* here (label i of the code is position i+1).                             *)
(***************************************************************************)
EXTENDS Integers, Sequences, FiniteSets, TLC

\* ------------------------------------------------------------------ bounds
MaxProposals == 2
MaxRequirements == 2
MaxReviews == 2
\* runs that are between their load and their handler at the same time
MaxRuns == 1
\* writes of VENDORS_FILE by other sessions between a run's load and its handler
MaxOvertakes == 1

\* ---------------------------------------------------------------- sessions
VendorSessions == {"v1", "v2"}
ProcSessions == {"p1", "p2"}
SiteSessions == {"s1", "s2"}
Sessions == VendorSessions \cup ProcSessions \cup SiteSessions

username(s) ==
    IF s \in ProcSessions THEN "procure_user"
    ELSE IF s \in SiteSessions THEN "site_user"
    ELSE s

users_df ==
    {[username |-> "procure_user", role |-> "Procurement"],
     [username |-> "site_user", role |-> "Site"]}
    \cup {[username |-> v, role |-> "Vendor"] : v \in VendorSessions}

\* --------------------------------------------------------------- constants
PROCUREMENT_EMAIL == "procurement@company.com"
Categories == {"Cement", "Steel"}
NaN == "NaN"
None == "None"
NoIdx == 0

StatusChain ==
    <<"Pending", "Awaiting Certificates", "Certificates Submitted", "Accepted",
      "Out for Delivery", "Delivered", "Reviewed">>

TenDigitPhones == {"9876543210"}
PhoneInputs == {"9876543210", "98765"}
NameInputs == {"Ravi", ""}

\* phone.isdigit() and len(phone) == 10, on the inputs enumerated
IsValidPhone(phone) == phone \in TenDigitPhones /\ Len(phone) = 10

VARIABLES
    vendors,             \* VENDORS_FILE: the proposal rows
    requirements,        \* REQUIREMENTS_FILE rows
    reviews,             \* REVIEWS_FILE rows
    notifications,       \* the rows the latest operation appended to NOTIFICATIONS_FILE
    df,                  \* per session: the DataFrame of the script run in progress
    edit_proposal_idx,   \* st.session_state.edit_proposal_idx of a vendor session
    edit_req_idx,        \* st.session_state.edit_req_idx of a procurement session
    category_to_analyze, \* value of the "Analyze Category" selectbox
    analysis_results,    \* st.session_state.analysis_results
    analyzed_category    \* st.session_state.analyzed_category

vars ==
    <<vendors, requirements, reviews, notifications, df, edit_proposal_idx,
      edit_req_idx, category_to_analyze, analysis_results, analyzed_category>>

stores == <<vendors, requirements, reviews>>
proc_state == <<edit_req_idx, category_to_analyze, analysis_results, analyzed_category>>

NoDf == [loaded |-> FALSE, rows |-> <<>>, overtaken |-> 0]
NoResults == [set |-> FALSE, rows |-> <<>>]

\* ----------------------------------------------------------------- helpers
Min(a, b) == IF a < b THEN a ELSE b
Abs(x) == IF x < 0 THEN -x ELSE x

RECURSIVE SumSeq(_)
SumSeq(q) == IF q = <<>> THEN 0 ELSE Head(q) + SumSeq(Tail(q))

RECURSIVE SeqMax(_)
SeqMax(q) == IF Len(q) = 1 THEN q[1]
             ELSE LET m == SeqMax(Tail(q)) IN IF q[1] > m THEN q[1] ELSE m

RECURSIVE SeqMin(_)
SeqMin(q) == IF Len(q) = 1 THEN q[1]
             ELSE LET m == SeqMin(Tail(q)) IN IF q[1] < m THEN q[1] ELSE m

\* the members of a set of row positions, in increasing order
RECURSIVE Sorted(_)
Sorted(S) ==
    IF S = {} THEN <<>>
    ELSE LET m == CHOOSE x \in S : \A y \in S : y <= x
         IN Append(Sorted(S \ {m}), m)

Range(q) == {q[i] : i \in 1..Len(q)}

\* ------------------------------------------------------------ notifications
add_notification_to_named_user(target, message) ==
    IF target \in {"ALL_PROCUREMENT", "ALL_SITE"}
    THEN <<>>
    ELSE <<[username |-> target, message |-> message]>>

add_notification(target, message) ==
    IF target \in {"ALL_PROCUREMENT", "ALL_SITE"}
    THEN LET target_role == IF target = "ALL_PROCUREMENT" THEN "Procurement" ELSE "Site"
             target_users == {u.username : u \in {x \in users_df : x.role = target_role}}
             order == CHOOSE q \in [1..Cardinality(target_users) -> target_users] :
                          \A i, j \in DOMAIN q : i # j => q[i] # q[j]
         IN [i \in DOMAIN order |-> [username |-> order[i], message |-> message]]
    ELSE <<[username |-> target, message |-> message]>>

\* --------------------------------------------------------------- proposals
new_proposal(user, category, quantity, rate, address) ==
    [submitted_by |-> user, category |-> category, quantity |-> quantity,
     rate |-> rate, address |-> address, status |-> "Pending",
     delivery_boy_name |-> "", delivery_boy_phone |-> "",
     scheduled_delivery_datetime |-> ""]

\* the row that df.loc[idx, 'status'] = value adds when label idx is not in df:
\* every other column is NaN (numeric columns hold 0 here and are never read:
\* IsNaNRow tells such a row apart)
NaNRow(status) ==
    [submitted_by |-> NaN, category |-> NaN, quantity |-> 0, rate |-> 0,
     address |-> NaN, status |-> status, delivery_boy_name |-> NaN,
     delivery_boy_phone |-> NaN, scheduled_delivery_datetime |-> NaN]

IsNaNRow(r) == r.submitted_by = NaN

\* df.loc[idx, 'status'] = status
SetStatus(rows, idx, status) ==
    IF idx \in 1..Len(rows)
    THEN [rows EXCEPT ![idx].status = status]
    ELSE Append(rows, NaNRow(status))

\* my_proposals.index of a vendor session
my_proposal_indices(rows, user) == {i \in 1..Len(rows) : rows[i].submitted_by = user}

WithStatus(rows, status) == {i \in 1..Len(rows) : rows[i].status = status}

Running == {s \in Sessions : df[s].loaded}

\* strings that pd.read_csv takes for a missing value (two of its defaults)
na_values == {"NA", NaN}

\* pd.read_csv(VENDORS_FILE): a delivery_boy_name cell holding one of na_values
\* is NaN in the DataFrame, and to_csv writes a NaN cell as an empty one
read_csv(rows) ==
    [i \in 1..Len(rows) |->
        IF rows[i].delivery_boy_name \in na_values
        THEN [rows[i] EXCEPT !.delivery_boy_name = NaN]
        ELSE rows[i]]

\* the store as it is now, whatever the run loaded
Frame_reloaded(s) == read_csv(vendors)

\* the DataFrame the run of session s works on
Frame(s) == IF df[s].loaded THEN df[s].rows ELSE read_csv(vendors)

\* the run of s ends without writing VENDORS_FILE
EndRun(s) == df' = [df EXCEPT ![s] = NoDf]

\* the run of s ends having written VENDORS_FILE (to_csv)
Wrote(s) ==
    /\ \A t \in Running \ {s} : df[t].overtaken < MaxOvertakes
    /\ df' = [t \in Sessions |->
                IF t = s THEN NoDf
                ELSE IF df[t].loaded THEN [df[t] EXCEPT !.overtaken = @ + 1]
                ELSE df[t]]

Init ==
    /\ vendors = <<>>
    /\ requirements = <<>>
    /\ reviews = <<>>
    /\ notifications = <<>>
    /\ df = [s \in Sessions |-> NoDf]
    /\ edit_proposal_idx = [s \in VendorSessions |-> NoIdx]
    /\ edit_req_idx = [s \in ProcSessions |-> NoIdx]
    /\ category_to_analyze = [s \in ProcSessions |-> None]
    /\ analysis_results = [s \in ProcSessions |-> NoResults]
    /\ analyzed_category = [s \in ProcSessions |-> None]

\* ------------------------------------------------------------- script runs
\* load_and_validate_df(VENDORS_FILE, VENDOR_COLUMNS) at the top of a dashboard,
\* in a run whose handler comes after other sessions' runs
load_and_validate_df(s, max_runs) ==
    /\ ~df[s].loaded
    /\ Cardinality(Running) < max_runs
    /\ df' = [df EXCEPT ![s] = [loaded |-> TRUE, rows |-> read_csv(vendors),
                                 overtaken |-> 0]]
    /\ notifications' = <<>>
    /\ UNCHANGED <<stores, edit_proposal_idx, proc_state>>

\* a script run in which no button fires
Render(s) ==
    /\ df[s].loaded
    /\ EndRun(s)
    /\ notifications' = <<>>
    /\ UNCHANGED <<stores, edit_proposal_idx, proc_state>>

\* ---------------------------------------------------------- vendor_dashboard
\* "Submit Proposal": the row is appended to VENDORS_FILE (to_csv mode='a')
SubmitProposal(s, category, quantity, rate, phone, address) ==
    /\ s \in VendorSessions
    /\ Len(vendors) < MaxProposals
    /\ LET is_valid == IsValidPhone(phone) /\ quantity # 0 /\ rate # 0
       IN IF is_valid
          THEN /\ vendors' = Append(vendors,
                        new_proposal(username(s), category, quantity, rate, address))
               /\ notifications' = add_notification("ALL_PROCUREMENT", "New proposal")
               /\ Wrote(s)
          ELSE /\ vendors' = vendors
               /\ notifications' = <<>>
               /\ EndRun(s)
    /\ UNCHANGED <<requirements, reviews, edit_proposal_idx, proc_state>>

\* "Edit" on a row of the Pending tab
Edit(s, index) ==
    /\ s \in VendorSessions
    /\ index \in my_proposal_indices(Frame(s), username(s))
    /\ Frame(s)[index].status = "Pending"
    /\ edit_proposal_idx' = [edit_proposal_idx EXCEPT ![s] = index]
    /\ EndRun(s)
    /\ notifications' = <<>>
    /\ UNCHANGED <<stores, proc_state>>

\* the edit form is built from my_proposals.loc[edit_index] (a KeyError ends the
\* run when the label is not among the session's proposals)
EditFormShown(s) ==
    /\ edit_proposal_idx[s] # NoIdx
    /\ edit_proposal_idx[s] \in my_proposal_indices(Frame(s), username(s))

\* "Save Changes" of the edit form
SaveChanges(s, quantity, rate, phone, address) ==
    /\ s \in VendorSessions
    /\ EditFormShown(s)
    /\ LET edit_index == edit_proposal_idx[s]
       IN IF IsValidPhone(phone)
          THEN /\ vendors' = [Frame(s) EXCEPT ![edit_index].quantity = quantity,
                                              ![edit_index].rate = rate,
                                              ![edit_index].address = address]
               /\ edit_proposal_idx' = [edit_proposal_idx EXCEPT ![s] = NoIdx]
               /\ Wrote(s)
          ELSE /\ UNCHANGED <<vendors, edit_proposal_idx>>
               /\ EndRun(s)
    /\ notifications' = <<>>
    /\ UNCHANGED <<requirements, reviews, proc_state>>

\* "Cancel" of the edit form
Cancel(s) ==
    /\ s \in VendorSessions
    /\ EditFormShown(s)
    /\ edit_proposal_idx' = [edit_proposal_idx EXCEPT ![s] = NoIdx]
    /\ EndRun(s)
    /\ notifications' = <<>>
    /\ UNCHANGED <<stores, proc_state>>

\* "I Have Emailed the Certificates" on a row of the Action Required tab
EmailedCertificates(s, index) ==
    /\ s \in VendorSessions
    /\ index \in my_proposal_indices(Frame(s), username(s))
    /\ Frame(s)[index].status = "Awaiting Certificates"
    /\ vendors' = SetStatus(Frame(s), index, "Certificates Submitted")
    /\ notifications' = add_notification("ALL_PROCUREMENT", "Certificates have been submitted")
    /\ Wrote(s)
    /\ UNCHANGED <<requirements, reviews, edit_proposal_idx, proc_state>>

\* "Dispatch Item" on a row of the Accepted tab
DispatchItem(s, index, name, phone, dt) ==
    /\ s \in VendorSessions
    /\ index \in my_proposal_indices(Frame(s), username(s))
    /\ Frame(s)[index].status = "Accepted"
    /\ IF name # "" /\ IsValidPhone(phone)
       THEN /\ vendors' = [Frame(s) EXCEPT
                              ![index].status = "Out for Delivery",
                              ![index].delivery_boy_name = name,
                              ![index].delivery_boy_phone = phone,
                              ![index].scheduled_delivery_datetime = dt]
            /\ notifications' = add_notification("ALL_PROCUREMENT", "DISPATCHED")
                                \o add_notification("ALL_SITE", "DELIVERY")
            /\ Wrote(s)
       ELSE /\ vendors' = vendors
            /\ notifications' = <<>>
            /\ EndRun(s)
    /\ UNCHANGED <<requirements, reviews, edit_proposal_idx, proc_state>>

\* ------------------------------------------------------------ site_dashboard
\* "Confirm Receipt of Item" on a row of the Incoming Deliveries tab
ConfirmReceipt(s, index) ==
    /\ s \in SiteSessions
    /\ index \in WithStatus(Frame(s), "Out for Delivery")
    /\ vendors' = SetStatus(Frame(s), index, "Delivered")
    /\ notifications' = add_notification(Frame(s)[index].submitted_by, "Delivery was received")
                        \o add_notification("ALL_PROCUREMENT", "DELIVERED")
    /\ Wrote(s)
    /\ UNCHANGED <<requirements, reviews, edit_proposal_idx, proc_state>>

\* "Submit Review" on a row of the Pending Review tab
SubmitReviewWithin(s, index, rating, max_reviews) ==
    /\ s \in SiteSessions
    /\ index \in WithStatus(Frame(s), "Delivered")
    /\ Len(reviews) < max_reviews
    /\ reviews' = Append(reviews, [proposal_index |-> index, rating |-> rating,
                                   reviewed_by |-> username(s)])
    /\ vendors' = SetStatus(Frame(s), index, "Reviewed")
    /\ notifications' = add_notification("ALL_PROCUREMENT", "REVIEW")
    /\ Wrote(s)
    /\ UNCHANGED <<requirements, edit_proposal_idx, proc_state>>

SubmitReview(s, index, rating) == SubmitReviewWithin(s, index, rating, MaxReviews)

\* ----------------------------------------------------------------- numbers
(***************************************************************************)
(* Rates are whole currency units and distances whole metres.  A mean is   *)
(* kept as the fraction [num, den].  epsilon = 1e-9 (line 553) is kept as  *)
(* the symbol e: a polynomial c0 + c1*e + c2*e^2 is the tuple              *)
(* <<c0, c1, c2>>, and since every coefficient of the model stays far      *)
(* below 1/e, its sign is the sign of its lowest-order nonzero             *)
(* coefficient.  Floating-point rounding is not modelled.                  *)
(***************************************************************************)
MetersPerKm == 1000
DefaultRating == 3
TopMatches == 3
WeightSteps == 1

Sgn(x) == IF x > 0 THEN 1 ELSE IF x < 0 THEN -1 ELSE 0
PolyAdd(p, q) == <<p[1] + q[1], p[2] + q[2], p[3] + q[3]>>
PolyScale(c, p) == <<c * p[1], c * p[2], c * p[3]>>
PolySign(p) == IF p[1] # 0 THEN Sgn(p[1]) ELSE IF p[2] # 0 THEN Sgn(p[2]) ELSE Sgn(p[3])
\* (a0 + a1*e) * (b0 + b1*e)
LinMul(a, b) == <<a[1] * b[1], a[1] * b[2] + a[2] * b[1], a[2] * b[2]>>

\* --------------------------------------------------------------- get_distance
\* the metres get_distance returns: 0 without a client, without a route and on
\* an exception, the route's length otherwise
get_distance(answer) == IF answer.ok THEN answer.meters ELSE 0

\* --------------------------------------------------------- get_vendor_ratings
\* reviews merged with the proposals on proposal_index (an inner join), then
\* the mean rating by submitted_by
MergedReviews(revs, rows) ==
    {i \in 1..Len(revs) : revs[i].proposal_index \in 1..Len(rows)}

get_vendor_ratings_first_match(revs, rows) ==
    LET merged == MergedReviews(revs, rows)
        by(u) == {i \in merged : rows[revs[i].proposal_index].submitted_by = u}
        keys == {rows[revs[i].proposal_index].submitted_by : i \in merged} \ {NaN}
    IN [u \in keys |-> [num |-> revs[Sorted(by(u))[1]].rating, den |-> 1]]

get_vendor_ratings(revs, rows) ==
    LET merged == MergedReviews(revs, rows)
        by(u) == {i \in merged : rows[revs[i].proposal_index].submitted_by = u}
        keys == {rows[revs[i].proposal_index].submitted_by : i \in merged} \ {NaN}
        total(u) == LET q == Sorted(by(u))
                    IN SumSeq([j \in 1..Len(q) |-> revs[q[j]].rating])
    IN [u \in keys |-> [num |-> total(u), den |-> Cardinality(by(u))]]

\* ------------------------------------------------------------ ranking columns
average_rating_or_zero(vendor_ratings, user) ==
    IF user \in DOMAIN vendor_ratings THEN vendor_ratings[user]
    ELSE [num |-> 0, den |-> 1]

\* pending['submitted_by'].map(vendor_ratings).fillna(3.0)
average_rating(vendor_ratings, user) ==
    IF user \in DOMAIN vendor_ratings THEN vendor_ratings[user]
    ELSE [num |-> DefaultRating, den |-> 1]

\* d / 1000 if d > 0 else np.nan  (metres are kept; km = m / MetersPerKm)
distance_km(d) == IF d > 0 THEN [nan |-> FALSE, m |-> d] ELSE [nan |-> TRUE, m |-> 0]

rate_score_over_rate(rate, total, n) ==
    [num |-> Abs(n * rate - total), den |-> <<n * rate, n>>]

rate_score_zero(rate, total, n) ==
    [num |-> 0, den |-> <<total, n>>]

rate_score_signed(rate, total, n) ==
    [num |-> n * rate - total, den |-> <<total, n>>]

\* abs(rate - avg_rate) / (avg_rate + epsilon), avg_rate = total / n:
\* the value num / (den[1] + den[2]*e)
rate_score(rate, total, n) ==
    [num |-> Abs(n * rate - total), den |-> <<total, n>>]

dist_norm_failed_as_farthest(d, kms) ==
    LET known == {j \in 1..Len(kms) : ~kms[j].nan}
        ms == Sorted({kms[j].m : j \in known})
    IN IF d.nan \/ known = {}
       THEN [num |-> 1, den |-> <<1, 0>>]
       ELSE [num |-> d.m - SeqMin(ms), den |-> <<SeqMax(ms) - SeqMin(ms), MetersPerKm>>]

dist_norm_no_epsilon(d, kms) ==
    LET known == {j \in 1..Len(kms) : ~kms[j].nan}
        ms == Sorted({kms[j].m : j \in known})
    IN IF d.nan \/ known = {}
       THEN [num |-> 0, den |-> <<0, MetersPerKm>>]
       ELSE [num |-> d.m - SeqMin(ms), den |-> <<SeqMax(ms) - SeqMin(ms), 0>>]

\* (distance_km - min) / (max - min + epsilon), NaN filled with 0:
\* the value num / (den[1] + den[2]*e)
dist_norm(d, kms) ==
    LET known == {j \in 1..Len(kms) : ~kms[j].nan}
        ms == Sorted({kms[j].m : j \in known})
    IN IF d.nan \/ known = {}
       THEN [num |-> 0, den |-> <<0, MetersPerKm>>]
       ELSE [num |-> d.m - SeqMin(ms), den |-> <<SeqMax(ms) - SeqMin(ms), MetersPerKm>>]

\* (5 - average_rating) / 4
rating_score(avg) == [num |-> 5 * avg.den - avg.num, den |-> 4 * avg.den]

\* rate_score*rate_w + dist_norm*dist_w + rating_score*rating_w with the weights
\* w / WeightSteps: the value num / (k * base), num and base polynomials in e
final_score(rs, dn, gs, rate_w, dist_w, rating_w) ==
    LET rden == <<rs.den[1], rs.den[2], 0>>
        dden == <<dn.den[1], dn.den[2], 0>>
    IN [num |-> PolyAdd(PolyScale(rate_w * rs.num * gs.den, dden),
                PolyAdd(PolyScale(dist_w * dn.num * gs.den, rden),
                        PolyScale(rating_w * gs.num, LinMul(rs.den, dn.den)))),
        k |-> WeightSteps * gs.den,
        base |-> LinMul(rs.den, dn.den)]

\* x < y for two final scores of one analysis (they share base)
FinalLess(x, y) ==
    LET diff == PolyAdd(PolyScale(x.k, y.num), PolyScale(-y.k, x.num))
    IN PolySign(diff) * PolySign(x.base) > 0

FinalSign(x) == PolySign(x.num) * PolySign(x.base)

PendingOf_any_status(rows, cat) ==
    Sorted({i \in 1..Len(rows) : rows[i].category = cat})

PendingOf_any_category(rows, cat) ==
    Sorted({i \in 1..Len(rows) : rows[i].status = "Pending"})

\* the proposals of the category that are Pending (line 531), in store order
PendingOf(rows, cat) ==
    Sorted({i \in 1..Len(rows) : rows[i].category = cat /\ rows[i].status = "Pending"})

\* the element of a one-element set
TheOnly(S) == CHOOSE x \in S : TRUE

\* the columns Analyze adds to pending (lines 546-559), before the sort.
\* pending, vendor_ratings, kms and, per row, avg, rs, dn and gs are each
\* computed once: they are bound as the element of a one-element set
ScoredRows(rows, reqs, revs, cur, cat, rate_w, dist_w, rating_w, answers) ==
    LET category_reqs == {i \in 1..Len(reqs) : reqs[i].item_category = cat}
        n == Cardinality(category_reqs)
        rq == Sorted(category_reqs)
        total == SumSeq([j \in 1..n |-> reqs[rq[j]].budgeted_rate])
        row(pending, vendor_ratings, kms, budget, j) ==
            TheOnly({[idx |-> pending[j], submitted_by |-> p.submitted_by,
                      category |-> p.category, rate |-> p.rate,
                      average_rating |-> avg, distance_km |-> kms[j],
                      rate_score |-> rs, dist_norm |-> dn, rating_score |-> gs,
                      final_score |-> final_score(rs, dn, gs, rate_w, dist_w, rating_w)] :
                     <<p, avg, rs, dn, gs>> \in
                        {<<rows[pending[j]],
                           average_rating(vendor_ratings, rows[pending[j]].submitted_by),
                           rate_score(rows[pending[j]].rate, budget.total, budget.n),
                           dist_norm(kms[j], kms),
                           rating_score(average_rating(vendor_ratings,
                                                       rows[pending[j]].submitted_by))>>}})
    IN TheOnly({<<>> \o [j \in 1..Len(pending) |->
                           row(pending, vendor_ratings, kms, budget, j)] :
                   <<pending, vendor_ratings, kms, budget>> \in
                      {<<PendingOf(rows, cat),
                         get_vendor_ratings(revs, cur),
                         <<>> \o [j \in 1..Len(PendingOf(rows, cat)) |->
                                     distance_km(get_distance(answers[j]))],
                         [total |-> total, n |-> n]>>}})

Orderings(n) ==
    {p \in [1..n -> 1..n] : \A i, j \in 1..n : i # j => p[i] # p[j]}

\* pending.sort_values('final_score'): the default kind is quicksort, which is
\* not stable, so every ascending order of the rows is a possible outcome
sort_values(scored) ==
    {[j \in 1..Len(scored) |-> scored[p[j]]] : p \in
        {p \in Orderings(Len(scored)) :
            \A a, b \in 1..Len(scored) :
                a < b => ~FinalLess(scored[p[b]].final_score, scored[p[a]].final_score)}}

\* ------------------------------------------------------ procurement_dashboard
\* "Save Requirement": the row is appended to REQUIREMENTS_FILE
SaveRequirement(s, category, rate, limit) ==
    /\ s \in ProcSessions
    /\ Len(requirements) < limit
    /\ IF rate # 0
       THEN requirements' = Append(requirements,
                                   [item_category |-> category, budgeted_rate |-> rate])
       ELSE requirements' = requirements
    /\ EndRun(s)
    /\ notifications' = <<>>
    /\ UNCHANGED <<vendors, reviews, edit_proposal_idx, proc_state>>

\* reqs_df.iloc[edit_index] (line 478) raises IndexError when the row is gone;
\* the exception ends the script run before anything below it is drawn
ReqsDrawn(s) == edit_req_idx[s] = NoIdx \/ edit_req_idx[s] \in 1..Len(requirements)

\* "Edit" on a row of Current Requirements
EditRequirement(s, index) ==
    /\ s \in ProcSessions
    /\ edit_req_idx[s] = NoIdx
    /\ index \in 1..Len(requirements)
    /\ edit_req_idx' = [edit_req_idx EXCEPT ![s] = index]
    /\ EndRun(s)
    /\ notifications' = <<>>
    /\ UNCHANGED <<stores, edit_proposal_idx, category_to_analyze, analysis_results,
                   analyzed_category>>

\* "Save Changes" of the requirement edit form
SaveRequirementChanges(s, rate) ==
    /\ s \in ProcSessions
    /\ edit_req_idx[s] # NoIdx
    /\ ReqsDrawn(s)
    /\ requirements' = [requirements EXCEPT ![edit_req_idx[s]].budgeted_rate = rate]
    /\ edit_req_idx' = [edit_req_idx EXCEPT ![s] = NoIdx]
    /\ EndRun(s)
    /\ notifications' = <<>>
    /\ UNCHANGED <<vendors, reviews, edit_proposal_idx, category_to_analyze,
                   analysis_results, analyzed_category>>

\* "Cancel" of the requirement edit form
CancelRequirementEdit(s) ==
    /\ s \in ProcSessions
    /\ edit_req_idx[s] # NoIdx
    /\ ReqsDrawn(s)
    /\ edit_req_idx' = [edit_req_idx EXCEPT ![s] = NoIdx]
    /\ EndRun(s)
    /\ notifications' = <<>>
    /\ UNCHANGED <<stores, edit_proposal_idx, category_to_analyze, analysis_results,
                   analyzed_category>>

\* "Delete" on a row of Current Requirements
DeleteRequirement(s, index) ==
    /\ s \in ProcSessions
    /\ edit_req_idx[s] = NoIdx
    /\ index \in 1..Len(requirements)
    /\ requirements' = [i \in 1..(Len(requirements) - 1) |->
                            IF i < index THEN requirements[i] ELSE requirements[i + 1]]
    /\ EndRun(s)
    /\ notifications' = <<>>
    /\ UNCHANGED <<vendors, reviews, edit_proposal_idx, proc_state>>

\* reqs_df['item_category'].unique(): the categories in order of first appearance
CategoryOptions ==
    Sorted({i \in 1..Len(requirements) :
               \A j \in 1..(i - 1) : requirements[j].item_category
                                     # requirements[i].item_category})

\* the selectbox's value: the chosen option, or the first one
CurrentCategory(s) ==
    IF \E i \in 1..Len(requirements) : requirements[i].item_category = category_to_analyze[s]
    THEN category_to_analyze[s]
    ELSE requirements[CategoryOptions[1]].item_category

\* the Smart Proposal Analysis section is drawn (lines 519-526)
AnalysisDrawn(s) ==
    /\ s \in ProcSessions
    /\ ReqsDrawn(s)
    /\ requirements # <<>>

\* another option of "Analyze Category" is chosen: on_change=clear_analysis
SelectCategory(s, category) ==
    /\ AnalysisDrawn(s)
    /\ \E i \in 1..Len(requirements) : requirements[i].item_category = category
    /\ category # CurrentCategory(s)
    /\ category_to_analyze' = [category_to_analyze EXCEPT ![s] = category]
    /\ analysis_results' = [analysis_results EXCEPT ![s] = NoResults]
    /\ EndRun(s)
    /\ notifications' = <<>>
    /\ UNCHANGED <<stores, edit_proposal_idx, edit_req_idx, analyzed_category>>

Analyze_once(s, rate_w, dist_w, rating_w, answers) ==
    /\ analyzed_category[s] = None
    /\ AnalysisDrawn(s)
    /\ PendingOf(Frame(s), CurrentCategory(s)) # <<>>
    /\ \E scored \in {ScoredRows(Frame(s), requirements, reviews, vendors,
                                  CurrentCategory(s), rate_w, dist_w, rating_w, answers)} :
          \E sorted \in sort_values(scored) :
              analysis_results' = [analysis_results EXCEPT
                                      ![s] = [set |-> TRUE, rows |-> sorted]]
    /\ analyzed_category' = [analyzed_category EXCEPT ![s] = CurrentCategory(s)]
    /\ EndRun(s)
    /\ notifications' = <<>>
    /\ UNCHANGED <<stores, edit_proposal_idx, edit_req_idx, category_to_analyze>>

Analyze_notifying(s, rate_w, dist_w, rating_w, answers) ==
    /\ AnalysisDrawn(s)
    /\ PendingOf(Frame(s), CurrentCategory(s)) # <<>>
    /\ \E scored \in {ScoredRows(Frame(s), requirements, reviews, vendors,
                                  CurrentCategory(s), rate_w, dist_w, rating_w, answers)} :
          \E sorted \in sort_values(scored) :
              analysis_results' = [analysis_results EXCEPT
                                      ![s] = [set |-> TRUE, rows |-> sorted]]
    /\ analyzed_category' = [analyzed_category EXCEPT ![s] = CurrentCategory(s)]
    /\ EndRun(s)
    /\ notifications' = add_notification("ALL_SITE", "ANALYSIS")
    /\ UNCHANGED <<stores, edit_proposal_idx, edit_req_idx, category_to_analyze>>

\* "Analyze" (lines 544-562); answers are the resolver's outcomes, one per
\* pending row
Analyze(s, rate_w, dist_w, rating_w, answers) ==
    /\ AnalysisDrawn(s)
    /\ PendingOf(Frame(s), CurrentCategory(s)) # <<>>
    /\ \E scored \in {ScoredRows(Frame(s), requirements, reviews, vendors,
                                  CurrentCategory(s), rate_w, dist_w, rating_w, answers)} :
          \E sorted \in sort_values(scored) :
              analysis_results' = [analysis_results EXCEPT
                                      ![s] = [set |-> TRUE, rows |-> sorted]]
    /\ analyzed_category' = [analyzed_category EXCEPT ![s] = CurrentCategory(s)]
    /\ EndRun(s)
    /\ notifications' = <<>>
    /\ UNCHANGED <<stores, edit_proposal_idx, edit_req_idx, category_to_analyze>>

\* the rows of results.head(3), which carry the Accept and Reject buttons
TopRanks(s) == 1..Min(TopMatches, Len(analysis_results[s].rows))

\* "Accept & Request Certificates via Email" on a Top Matches row
Accept(s, rank) ==
    /\ AnalysisDrawn(s)
    /\ analysis_results[s].set
    /\ rank \in TopRanks(s)
    /\ LET row == analysis_results[s].rows[rank]
       IN /\ vendors' = SetStatus(Frame(s), row.idx, "Awaiting Certificates")
          /\ notifications' = add_notification(row.submitted_by, "ACTION: provisionally accepted")
    /\ analysis_results' = [analysis_results EXCEPT ![s] = NoResults]
    /\ Wrote(s)
    /\ UNCHANGED <<requirements, reviews, edit_proposal_idx, edit_req_idx,
                   category_to_analyze, analyzed_category>>

\* "Reject" on a Top Matches row
Reject(s, rank) ==
    /\ AnalysisDrawn(s)
    /\ analysis_results[s].set
    /\ rank \in TopRanks(s)
    /\ LET row == analysis_results[s].rows[rank]
       IN /\ vendors' = SetStatus(Frame(s), row.idx, "Rejected")
          /\ notifications' = add_notification(row.submitted_by, "rejected")
    /\ analysis_results' = [analysis_results EXCEPT ![s] = NoResults]
    /\ Wrote(s)
    /\ UNCHANGED <<requirements, reviews, edit_proposal_idx, edit_req_idx,
                   category_to_analyze, analyzed_category>>

\* "Final Accept" on a row of the Certificate Verification tab
FinalAccept(s, index) ==
    /\ s \in ProcSessions
    /\ ReqsDrawn(s)
    /\ index \in WithStatus(Frame(s), "Certificates Submitted")
    /\ vendors' = SetStatus(Frame(s), index, "Accepted")
    /\ notifications' = add_notification(Frame(s)[index].submitted_by, "ACCEPTED")
                        \o add_notification("ALL_SITE", "Approved")
    /\ Wrote(s)
    /\ UNCHANGED <<requirements, reviews, edit_proposal_idx, proc_state>>

\* "Final Reject" on a row of the Certificate Verification tab
FinalReject(s, index) ==
    /\ s \in ProcSessions
    /\ ReqsDrawn(s)
    /\ index \in WithStatus(Frame(s), "Certificates Submitted")
    /\ vendors' = SetStatus(Frame(s), index, "Rejected")
    /\ notifications' = add_notification(Frame(s)[index].submitted_by, "rejected after review")
    /\ Wrote(s)
    /\ UNCHANGED <<requirements, reviews, edit_proposal_idx, proc_state>>

\* ------------------------------------------------------------------ inputs
Addresses == {"Kochi"}
DeliveryTimes == {"2025-01-01 09:00:00"}
Quantities == {1}
NoAnswer == [ok |-> FALSE, meters |-> 0]

\* rows of REQUIREMENTS_FILE in the workflow specifications
MaxWorkflowRequirements == 1

\* --------------------------------------------- specification of the workflow
(***************************************************************************)
(* Spec: every handler of the three dashboards, by two vendor sessions,    *)
(* two procurement sessions and two site sessions (one user, two browser   *)
(* tabs each), each run being one step; one category, one rate.            *)
(***************************************************************************)
VendorStep(s, categories, rates, edit_rates) ==
    \/ \E c \in categories, q \in Quantities, r \in rates, ph \in PhoneInputs,
          a \in Addresses : SubmitProposal(s, c, q, r, ph, a)
    \/ \E i \in 1..MaxProposals : Edit(s, i)
    \/ \E q \in Quantities, r \in edit_rates, ph \in PhoneInputs, a \in Addresses :
          SaveChanges(s, q, r, ph, a)
    \/ Cancel(s)
    \/ \E i \in 1..MaxProposals : EmailedCertificates(s, i)
    \/ \E i \in 1..MaxProposals, n \in NameInputs, ph \in PhoneInputs, dt \in DeliveryTimes :
          DispatchItem(s, i, n, ph, dt)

RequirementStep(s, categories, budget_rates, edit_budget_rates, limit) ==
    \/ \E c \in categories, r \in budget_rates : SaveRequirement(s, c, r, limit)
    \/ \E i \in 1..MaxRequirements : EditRequirement(s, i)
    \/ \E r \in edit_budget_rates : SaveRequirementChanges(s, r)
    \/ CancelRequirementEdit(s)
    \/ \E i \in 1..MaxRequirements : DeleteRequirement(s, i)

AnalyzeStep(s, weights, answers) ==
    \E rate_w \in weights, dist_w \in weights, rating_w \in weights,
       a \in [1..MaxProposals -> answers] : Analyze(s, rate_w, dist_w, rating_w, a)

DecisionStep(s) ==
    \/ \E k \in 1..TopMatches : Accept(s, k)
    \/ \E k \in 1..TopMatches : Reject(s, k)
    \/ \E i \in 1..MaxProposals : FinalAccept(s, i)
    \/ \E i \in 1..MaxProposals : FinalReject(s, i)

SiteStep(s, ratings) ==
    \/ \E i \in 1..MaxProposals : ConfirmReceipt(s, i)
    \/ \E i \in 1..MaxProposals, r \in ratings : SubmitReview(s, i, r)

Next ==
    \E s \in Sessions :
        \/ VendorStep(s, {"Cement"}, {100}, {100})
        \/ RequirementStep(s, {"Cement"}, {150}, {150}, MaxWorkflowRequirements)
        \/ AnalyzeStep(s, {1}, {NoAnswer})
        \/ DecisionStep(s)
        \/ SiteStep(s, {5})

Spec == Init /\ [][Next]_vars

\* ---------------------------------------------- specification of the ranking
(***************************************************************************)
(* SpecRank: the store starts empty or with one delivered and reviewed     *)
(* proposal; a vendor submits and edits proposals, procurement adds, edits *)
(* and deletes requirements and runs Analyze with every combination of     *)
(* weights and resolver outcomes; one category.                            *)
(***************************************************************************)
HistoryRatings == {1, 5}
RankWeights == 0..WeightSteps
RankAnswers == {NoAnswer, [ok |-> TRUE, meters |-> 5000]}

reviewed_proposal(user) ==
    [new_proposal(user, "Cement", 1, 100, "Kochi") EXCEPT
        !.status = "Reviewed", !.delivery_boy_name = "Ravi",
        !.delivery_boy_phone = "9876543210",
        !.scheduled_delivery_datetime = "2025-01-01 09:00:00"]

InitRank ==
    /\ \/ vendors = <<>> /\ reviews = <<>>
       \/ \E u \in VendorSessions, r \in HistoryRatings :
             /\ vendors = <<reviewed_proposal(u)>>
             /\ reviews = <<[proposal_index |-> 1, rating |-> r,
                             reviewed_by |-> "site_user"]>>
    /\ requirements = <<>>
    /\ notifications = <<>>
    /\ df = [s \in Sessions |-> NoDf]
    /\ edit_proposal_idx = [s \in VendorSessions |-> NoIdx]
    /\ edit_req_idx = [s \in ProcSessions |-> NoIdx]
    /\ category_to_analyze = [s \in ProcSessions |-> None]
    /\ analysis_results = [s \in ProcSessions |-> NoResults]
    /\ analyzed_category = [s \in ProcSessions |-> None]

NextRank ==
    \E s \in {"v1", "p1"} :
        \/ \E q \in Quantities, r \in {100, 200}, ph \in PhoneInputs, a \in Addresses :
              SubmitProposal(s, "Cement", q, r, ph, a)
        \/ \E i \in 1..MaxProposals : Edit(s, i)
        \/ \E q \in Quantities, r \in {0}, ph \in PhoneInputs, a \in Addresses :
              SaveChanges(s, q, r, ph, a)
        \/ Cancel(s)
        \/ RequirementStep(s, {"Cement"}, {100, 150}, {-150}, MaxWorkflowRequirements)
        \/ AnalyzeStep(s, RankWeights, RankAnswers)

SpecRank == InitRank /\ [][NextRank]_vars

\* ------------------------------------------- specification of the categories
(***************************************************************************)
(* SpecCat: two categories; a vendor submits proposals, procurement adds   *)
(* and deletes requirements, chooses the category to analyse, runs Analyze *)
(* and accepts or rejects Top Matches rows.                                *)
(***************************************************************************)
NextCat ==
    \E s \in {"v1", "p1"} :
        \/ \E c \in Categories, q \in Quantities, r \in {100}, ph \in TenDigitPhones,
              a \in Addresses : SubmitProposal(s, c, q, r, ph, a)
        \/ \E c \in Categories, r \in {150} : SaveRequirement(s, c, r, MaxRequirements)
        \/ \E i \in 1..MaxRequirements : DeleteRequirement(s, i)
        \/ \E c \in Categories : SelectCategory(s, c)
        \/ AnalyzeStep(s, {WeightSteps}, RankAnswers)
        \/ \E k \in 1..TopMatches : Accept(s, k)
        \/ \E k \in 1..TopMatches : Reject(s, k)

SpecCat == InitRank /\ [][NextCat]_vars

\* ------------------------------------------------------- status machine
Position(status) == CHOOSE k \in 1..Len(StatusChain) : StatusChain[k] = status

IsSuccessor(old, new) ==
    /\ old \in Range(StatusChain)
    /\ new \in Range(StatusChain)
    /\ Position(new) = Position(old) + 1

\* the rows whose status a step changes
StatusChanged ==
    {i \in 1..Min(Len(vendors), Len(vendors')) : vendors'[i].status # vendors[i].status}

\* C1: every change of a proposal's stored status goes to the immediate
\* successor in the chain Pending .. Reviewed, or to Rejected
C1_NoSkipNoRegress ==
    [][\A i \in StatusChanged :
          \/ IsSuccessor(vendors[i].status, vendors'[i].status)
          \/ vendors'[i].status = "Rejected"]_vars

\* C2: once a proposal's stored status is Rejected, no operation changes it
C2_RejectedIsTerminal ==
    [][\A i \in 1..Min(Len(vendors), Len(vendors')) :
          vendors[i].status = "Rejected" => vendors'[i].status = "Rejected"]_vars

\* C3: a proposal becomes Rejected only from Pending, Awaiting Certificates or
\* Certificates Submitted
C3_RejectOnlyAtGates ==
    [][\A i \in StatusChanged :
          vendors'[i].status = "Rejected" =>
              vendors[i].status \in {"Pending", "Awaiting Certificates",
                                     "Certificates Submitted"}]_vars

\* -------------------------------------------------------------- the ranking
\* a final score is a number: its denominator k * base is not zero
IsDefined(x) == x.k # 0 /\ PolySign(x.base) # 0

\* C4: the result an Analyze run stores lists exactly the proposals that are
\* Pending in the analysed category when it runs, each once, each with a
\* defined final_score
C4_AnalyzeIsPermutation ==
    [][\A s \in ProcSessions :
          (analysis_results'[s].set /\ analysis_results'[s] # analysis_results[s]) =>
              LET rows == analysis_results'[s].rows
                  pend == {i \in 1..Len(vendors) :
                              /\ vendors[i].category = analyzed_category'[s]
                              /\ vendors[i].status = "Pending"}
              IN /\ Len(rows) = Cardinality(pend)
                 /\ {rows[j].idx : j \in 1..Len(rows)} = pend
                 /\ \A j \in 1..Len(rows) : IsDefined(rows[j].final_score)]_vars

\* an analysis of Steel is on display while the store also holds a Cement
\* proposal and a proposal of a vendor with a review, and no distance resolved
C4_Analyzed ==
    \E s \in ProcSessions :
        /\ analysis_results[s].set
        /\ analyzed_category[s] = "Steel"
        /\ \A j \in 1..Len(analysis_results[s].rows) :
              /\ analysis_results[s].rows[j].distance_km.nan
              /\ vendors[analysis_results[s].rows[j].idx].status = "Pending"
        /\ \E i \in 1..Len(vendors) : vendors[i].category = "Cement"
        /\ reviews # <<>>

\* the step stores a new result for session s: an Analyze run by s
AnalyzedNow(s) ==
    analysis_results'[s].set /\ analysis_results'[s] # analysis_results[s]

\* the sum and the number of the budgeted rates of a category's requirements
BudgetCount(cat) ==
    Cardinality({i \in 1..Len(requirements) : requirements[i].item_category = cat})

BudgetTotal(cat) ==
    LET rq == Sorted({i \in 1..Len(requirements) : requirements[i].item_category = cat})
    IN SumSeq([j \in 1..Len(rq) |-> requirements[rq[j]].budgeted_rate])

\* the final scores of the rows are those of the weights rate 1, dist 0, rating 0
RateOnly(rows) ==
    \A j \in 1..Len(rows) :
        rows[j].final_score = final_score(rows[j].rate_score, rows[j].dist_norm,
                                          rows[j].rating_score, WeightSteps, 0, 0)

\* C5: a displayed result is in ascending order of final_score, and rows with
\* equal final_score are in store order
C5_StableAscending ==
    \A s \in ProcSessions :
        analysis_results[s].set =>
            LET rows == analysis_results[s].rows
            IN \A a, b \in 1..Len(rows) :
                  a < b =>
                      /\ ~FinalLess(rows[b].final_score, rows[a].final_score)
                      /\ ~FinalLess(rows[a].final_score, rows[b].final_score)
                            => rows[a].idx < rows[b].idx

\* C6: every final_score of a displayed result is non-negative
C6_FinalScoreNonNegative ==
    \A s \in ProcSessions :
        analysis_results[s].set =>
            \A j \in 1..Len(analysis_results[s].rows) :
                FinalSign(analysis_results[s].rows[j].final_score) >= 0

\* the store of the example: two Pending Cement proposals, A with rate 100
\* before B with rate 200, requirements averaging 150, no review of a submitter
C7_Store ==
    LET pend == Sorted({i \in 1..Len(vendors) : /\ vendors[i].category = "Cement"
                                                 /\ vendors[i].status = "Pending"})
    IN /\ Len(pend) = 2
       /\ vendors[pend[1]].rate = 100
       /\ vendors[pend[2]].rate = 200
       /\ BudgetCount("Cement") > 0
       /\ BudgetTotal("Cement") = 150 * BudgetCount("Cement")
       /\ \A r \in 1..Len(reviews), k \in 1..2 :
             reviews[r].proposal_index \in 1..Len(vendors) =>
                 vendors[reviews[r].proposal_index].submitted_by
                     # vendors[pend[k]].submitted_by

\* the row of the proposal with the given rate
RowOfRate(rows, rate) == CHOOSE j \in 1..Len(rows) : rows[j].rate = rate

\* C7 as stated: in the example the rate_score of A is about 0.667 (two thirds
\* of one), that of B about 0.333, and B is the first row
C7_SpecExample ==
    [][(AnalyzedNow("p1") /\ C7_Store /\ RateOnly(analysis_results'["p1"].rows)) =>
          LET rows == analysis_results'["p1"].rows
              A == rows[RowOfRate(rows, 100)]
              B == rows[RowOfRate(rows, 200)]
          IN /\ 3 * A.rate_score.num = 2 * A.rate_score.den[1]
             /\ 3 * B.rate_score.num = B.rate_score.den[1]
             /\ rows[1].rate = 200]_vars

\* C7, amended: in the example the rate_scores of A and of B are both about
\* 0.333 (|100-150|/150 = |200-150|/150), and their final scores are equal
C7_BothOneThird ==
    [][(AnalyzedNow("p1") /\ C7_Store /\ RateOnly(analysis_results'["p1"].rows)) =>
          LET rows == analysis_results'["p1"].rows
              A == rows[RowOfRate(rows, 100)]
              B == rows[RowOfRate(rows, 200)]
          IN /\ 3 * A.rate_score.num = A.rate_score.den[1]
             /\ 3 * B.rate_score.num = B.rate_score.den[1]
             /\ A.rate_score.den[1] > 0
             /\ ~FinalLess(A.final_score, B.final_score)
             /\ ~FinalLess(B.final_score, A.final_score)]_vars

\* the example has been analysed with the weights 1, 0, 0 and is on display
C7_ExampleAnalyzed ==
    /\ C7_Store
    /\ analysis_results["p1"].set
    /\ Len(analysis_results["p1"].rows) = 2
    /\ {analysis_results["p1"].rows[j].rate : j \in 1..2} = {100, 200}
    /\ \A j \in 1..2 : analysis_results["p1"].rows[j].rate_score.den = <<150, 1>>
    /\ RateOnly(analysis_results["p1"].rows)

\* C8 as stated: when all rows of a result have the same rate, every
\* rate_score is 0
C8_SameRateScoresZero ==
    \A s \in ProcSessions :
        analysis_results[s].set =>
            LET rows == analysis_results[s].rows
            IN (\A j, k \in 1..Len(rows) : rows[j].rate = rows[k].rate) =>
                   \A j \in 1..Len(rows) : rows[j].rate_score.num = 0

\* C8, amended: rows of an Analyze result with the same rate have the same
\* rate_score, and a rate_score is 0 exactly when the row's rate equals
\* avg_rate, the mean budgeted rate of the category's requirements
C8_SameRateSameScore ==
    [][\A s \in ProcSessions :
          AnalyzedNow(s) =>
              \A n \in {BudgetCount(analyzed_category'[s])},
                 total \in {BudgetTotal(analyzed_category'[s])} :
                  LET rows == analysis_results'[s].rows
                  IN /\ \A j, k \in 1..Len(rows) :
                            rows[j].rate = rows[k].rate =>
                                rows[j].rate_score = rows[k].rate_score
                     /\ \A j \in 1..Len(rows) :
                            rows[j].rate_score.num = 0 <=> rows[j].rate * n = total]_vars

\* two proposals with the same rate, which is not avg_rate, are on display
C8_SameRateAnalyzed ==
    \E s \in ProcSessions :
        /\ analysis_results[s].set
        /\ Len(analysis_results[s].rows) = 2
        /\ analysis_results[s].rows[1].rate = analysis_results[s].rows[2].rate
        /\ analysis_results[s].rows[1].rate_score.num # 0

\* C9: within an Analyze result, a row whose rate equals avg_rate has
\* rate_score 0, and rows whose rates deviate from avg_rate by the same
\* absolute amount have equal rate_score
C9_RateScoreOfDeviation ==
    [][\A s \in ProcSessions :
          AnalyzedNow(s) =>
              \A n \in {BudgetCount(analyzed_category'[s])},
                 total \in {BudgetTotal(analyzed_category'[s])} :
                  LET rows == analysis_results'[s].rows
                  IN /\ \A j \in 1..Len(rows) :
                            n * rows[j].rate = total => rows[j].rate_score.num = 0
                     /\ \A j, k \in 1..Len(rows) :
                            Abs(n * rows[j].rate - total) = Abs(n * rows[k].rate - total)
                                => rows[j].rate_score = rows[k].rate_score]_vars

\* rows with the rates avg_rate - 50 and avg_rate + 50 are on display
C9_OverAndUnder ==
    \E s \in ProcSessions :
        /\ analysis_results[s].set
        /\ Len(analysis_results[s].rows) = 2
        /\ \E j, k \in 1..2 :
              /\ analysis_results[s].rows[j].rate = 100
              /\ analysis_results[s].rows[k].rate = 200
              /\ analysis_results[s].rows[j].rate_score.den = <<150, 1>>
              /\ analysis_results[s].rows[j].rate_score.num = 50
              /\ analysis_results[s].rows[k].rate_score.num = 50

\* the vendors with a review on one of their proposals
ReviewedVendors ==
    {vendors[reviews[r].proposal_index].submitted_by :
        r \in {q \in 1..Len(reviews) : reviews[q].proposal_index \in 1..Len(vendors)}}

\* C10: a Pending proposal of the analysed category whose vendor has no review
\* is in the Analyze result with average_rating 3 and rating_score 1/2
C10_DefaultRating ==
    [][\A s \in ProcSessions :
          AnalyzedNow(s) =>
              \A i \in 1..Len(vendors) :
                  (/\ vendors[i].category = analyzed_category'[s]
                   /\ vendors[i].status = "Pending"
                   /\ vendors[i].submitted_by \notin ReviewedVendors) =>
                      \E j \in 1..Len(analysis_results'[s].rows) :
                          LET row == analysis_results'[s].rows[j]
                          IN /\ row.idx = i
                             /\ row.average_rating.num = 3 * row.average_rating.den
                             /\ 2 * row.rating_score.num = row.rating_score.den
                             /\ row.rating_score.den # 0]_vars

\* a proposal of a vendor without reviews is on display with the default
\* rating while another vendor has a review
C10_UnreviewedVendorRanked ==
    \E s \in ProcSessions :
        /\ analysis_results[s].set
        /\ reviews # <<>>
        /\ ReviewedVendors = {"v2"}
        /\ \E j \in 1..Len(analysis_results[s].rows) :
              /\ analysis_results[s].rows[j].submitted_by = "v1"
              /\ vendors[analysis_results[s].rows[j].idx].status = "Pending"
              /\ analysis_results[s].rows[j].average_rating = [num |-> 3, den |-> 1]

\* ---------------------------------------------- specification of the distances
(***************************************************************************)
(* SpecDist: two vendors submit proposals, procurement adds and deletes a  *)
(* requirement and runs Analyze with and without the distance weight; the  *)
(* resolver fails or returns one of two route lengths for each proposal.   *)
(***************************************************************************)
DistAnswers ==
    {NoAnswer, [ok |-> TRUE, meters |-> 5000], [ok |-> TRUE, meters |-> 12000]}

NextDist ==
    \/ \E s \in VendorSessions, q \in Quantities, ph \in TenDigitPhones, a \in Addresses :
          SubmitProposal(s, "Cement", q, 100, ph, a)
    \/ SaveRequirement("p1", "Cement", 150, MaxWorkflowRequirements)
    \/ DeleteRequirement("p1", 1)
    \/ \E dist_w \in RankWeights, a \in [1..MaxProposals -> DistAnswers] :
          Analyze("p1", WeightSteps, dist_w, WeightSteps, a)

SpecDist == Init /\ [][NextDist]_vars

\* the Pending proposals of Cement in the store, in store order
PendingCement ==
    Sorted({i \in 1..Len(vendors) : /\ vendors[i].category = "Cement"
                                    /\ vendors[i].status = "Pending"})

\* the row of a result that belongs to the proposal i
RowOf(rows, i) == rows[CHOOSE j \in 1..Len(rows) : rows[j].idx = i]

\* the score of the weights without the distance term
WithoutDistance(row, rate_w, rating_w) ==
    final_score(row.rate_score, [num |-> 0, den |-> row.dist_norm.den],
                row.rating_score, rate_w, 0, rating_w)

\* C11: in an Analyze run, every proposal whose lookup returns no positive
\* distance gets dist_norm 0 whatever the other lookups return; when every
\* lookup fails the result still holds every Pending proposal, scored by rate
\* and rating only
C11_FailedLookupScoresZero ==
    [][AnalyzedNow("p1") =>
          \A dist_w \in RankWeights, a \in [1..MaxProposals -> DistAnswers] :
              Analyze("p1", WeightSteps, dist_w, WeightSteps, a) =>
                  LET rows == analysis_results'["p1"].rows
                      pend == PendingCement
                      failed == {j \in 1..Len(pend) : ~a[j].ok \/ a[j].meters <= 0}
                  IN /\ \A j \in failed : RowOf(rows, pend[j]).dist_norm.num = 0
                     /\ \A j \in 1..Len(pend) : RowOf(rows, pend[j]).dist_norm.den # <<0, 0>>
                     /\ failed = 1..Len(pend) =>
                            /\ Len(rows) = Len(pend)
                            /\ \A j \in 1..Len(rows) :
                                   /\ IsDefined(rows[j].final_score)
                                   /\ rows[j].final_score
                                          = WithoutDistance(rows[j], WeightSteps, WeightSteps)]_vars

\* a result is on display in which one lookup failed and the other resolved
C11_OneLookupFailed ==
    /\ analysis_results["p1"].set
    /\ \E j, k \in 1..Len(analysis_results["p1"].rows) :
          /\ analysis_results["p1"].rows[j].distance_km.nan
          /\ ~analysis_results["p1"].rows[k].distance_km.nan
          /\ analysis_results["p1"].rows[k].distance_km.m = 12000

\* C12: in an Analyze run in which every lookup resolves to the same positive
\* distance, dist_norm is 0 for every proposal and its denominator is not zero
C12_EqualDistancesScoreZero ==
    [][AnalyzedNow("p1") =>
          \A dist_w \in RankWeights, a \in [1..MaxProposals -> DistAnswers] :
              (/\ Analyze("p1", WeightSteps, dist_w, WeightSteps, a)
               /\ \A j, k \in 1..Len(PendingCement) :
                      a[j].ok /\ a[j].meters > 0 /\ a[j].meters = a[k].meters) =>
                  \A j \in 1..Len(analysis_results'["p1"].rows) :
                      LET dn == analysis_results'["p1"].rows[j].dist_norm
                      IN /\ dn.num = 0
                         /\ PolySign(<<dn.den[1], dn.den[2], 0>>) # 0]_vars

\* a result of two proposals with the same resolved distance is on display
C12_EqualDistances ==
    /\ analysis_results["p1"].set
    /\ Len(analysis_results["p1"].rows) = 2
    /\ \A j \in 1..2 : /\ ~analysis_results["p1"].rows[j].distance_km.nan
                       /\ analysis_results["p1"].rows[j].distance_km.m = 5000

\* ------------------------------------------------ specification of the reviews
(***************************************************************************)
(* SpecReview: the store starts with two accepted proposals that are out   *)
(* for delivery or delivered; two site sessions (one user, two browser     *)
(* tabs) confirm receipts and submit reviews.  A run either handles its    *)
(* button at once, or loads VENDORS_FILE, lets another session's run pass  *)
(* and then handles its button on the frame it loaded.                     *)
(***************************************************************************)
Ratings == 1..5

dispatched_proposal(user, status) ==
    [reviewed_proposal(user) EXCEPT !.status = status]

InitReview ==
    /\ \E u1, u2 \in VendorSessions, st1, st2 \in {"Out for Delivery", "Delivered"} :
          vendors = <<dispatched_proposal(u1, st1), dispatched_proposal(u2, st2)>>
    /\ requirements = <<>>
    /\ reviews = <<>>
    /\ notifications = <<>>
    /\ df = [s \in Sessions |-> NoDf]
    /\ edit_proposal_idx = [s \in VendorSessions |-> NoIdx]
    /\ edit_req_idx = [s \in ProcSessions |-> NoIdx]
    /\ category_to_analyze = [s \in ProcSessions |-> None]
    /\ analysis_results = [s \in ProcSessions |-> NoResults]
    /\ analyzed_category = [s \in ProcSessions |-> None]

NextReview ==
    \E s \in SiteSessions :
        \/ load_and_validate_df(s, MaxRuns)
        \/ Render(s)
        \/ SiteStep(s, Ratings)

SpecReview == InitReview /\ [][NextReview]_vars

\* the vendor whose proposal a review is attached to (NaN when there is none)
ReviewedVendor(r) ==
    IF reviews[r].proposal_index \in 1..Len(vendors)
    THEN vendors[reviews[r].proposal_index].submitted_by
    ELSE NaN

\* C13: get_vendor_ratings has a key for exactly the vendors with a review on
\* one of their proposals, and the value is the mean of all those reviews'
\* ratings, between 1 and 5
C13_MeanRatingPerVendor ==
    LET ratings == get_vendor_ratings(reviews, vendors)
        count(u) == Cardinality({r \in 1..Len(reviews) : ReviewedVendor(r) = u})
        total(u) == SumSeq([r \in 1..Len(reviews) |->
                               IF ReviewedVendor(r) = u THEN reviews[r].rating ELSE 0])
    IN /\ DOMAIN ratings = {ReviewedVendor(r) : r \in 1..Len(reviews)} \ {NaN}
       /\ \A u \in DOMAIN ratings :
             /\ ratings[u].den = count(u)
             /\ ratings[u].den > 0
             /\ ratings[u].num = total(u)
             /\ ratings[u].den <= ratings[u].num
             /\ ratings[u].num <= 5 * ratings[u].den

\* one vendor has reviews with the ratings 2 and 5 on two proposals, the other
\* vendor has none
C13_TwoReviewsOneVendor ==
    /\ Len(reviews) = 2
    /\ reviews[1].rating = 2
    /\ reviews[2].rating = 5
    /\ reviews[1].proposal_index # reviews[2].proposal_index
    /\ \A i \in 1..Len(vendors) : vendors[i].submitted_by = "v1"
    /\ DOMAIN get_vendor_ratings(reviews, vendors) = {"v1"}

\* C20: the review store holds at most one review per proposal identifier
C20_OneReviewPerProposal ==
    \A q, r \in 1..Len(reviews) :
        reviews[q].proposal_index = reviews[r].proposal_index => q = r

\* C14: an accept operation (Accept on a Top Matches row, or Final Accept)
\* that acts on a proposal whose stored status is Accepted leaves the status
\* Accepted and appends no notification
C14_AcceptOfAcceptedIsNoOp ==
    [][\A s \in ProcSessions :
          /\ \A k \in 1..TopMatches :
                 (/\ Accept(s, k)
                  /\ analysis_results[s].rows[k].idx \in WithStatus(vendors, "Accepted")) =>
                     /\ vendors'[analysis_results[s].rows[k].idx].status = "Accepted"
                     /\ notifications' = <<>>
          /\ \A i \in WithStatus(vendors, "Accepted") :
                 FinalAccept(s, i) =>
                     /\ vendors'[i].status = "Accepted"
                     /\ notifications' = <<>>]_vars

\* C15: every proposal of the store has a rate and a quantity above 0
C15_PositiveRateAndQuantity ==
    \A i \in 1..Len(vendors) :
        ~IsNaNRow(vendors[i]) => vendors[i].rate > 0 /\ vendors[i].quantity > 0

\* C16: a step stores an analysis result only in a state in which the analysed
\* category has at least one requirement and at least one Pending proposal
C16_AnalyzeIsGated ==
    [][\A s \in ProcSessions :
          AnalyzedNow(s) =>
              /\ BudgetCount(analyzed_category'[s]) > 0
              /\ \E i \in 1..Len(vendors) :
                     /\ vendors[i].category = analyzed_category'[s]
                     /\ vendors[i].status = "Pending"]_vars

\* a Cement analysis is on display while Steel has a requirement and Pending
\* proposals exist for Cement only
C16_OnlyCementAnalyzable ==
    \E s \in ProcSessions :
        /\ analysis_results[s].set
        /\ analyzed_category[s] = "Cement"
        /\ BudgetCount("Steel") > 0
        /\ \E i \in 1..Len(vendors) : vendors[i].status = "Pending"
        /\ \A i \in 1..Len(vendors) : vendors[i].category = "Cement"

\* C17: a step that stores an analysis result for a session changes no
\* proposal, requirement or review, appends no notification, and leaves the
\* other session state alone
C17_AnalyzeChangesNoStore ==
    [][\A s \in ProcSessions :
          AnalyzedNow(s) =>
              /\ vendors' = vendors
              /\ requirements' = requirements
              /\ reviews' = reviews
              /\ notifications' = <<>>
              /\ \A t \in ProcSessions \ {s} :
                     /\ analysis_results'[t] = analysis_results[t]
                     /\ analyzed_category'[t] = analyzed_category[t]
              /\ UNCHANGED <<edit_proposal_idx, edit_req_idx, category_to_analyze>>]_vars

\* a result of two proposals is on display and both are still Pending
C17_TwoProposalsAnalyzed ==
    \E s \in ProcSessions :
        /\ analysis_results[s].set
        /\ Len(analysis_results[s].rows) = 2
        /\ Len(vendors) = 2
        /\ \A i \in 1..2 : vendors[i].status = "Pending"

\* the users a step's notifications are addressed to
Notified == {notifications'[n].username : n \in 1..Len(notifications')}

RoleGroup(role) == {u.username : u \in {x \in users_df : x.role = role}}

RejectOf(s, i) ==
    \/ \E k \in 1..TopMatches : Reject(s, k) /\ analysis_results[s].rows[k].idx = i
    \/ FinalReject(s, i)

\* C19: for a proposal that is Awaiting Certificates or Certificates
\* Submitted, and for a Pending proposal listed in a session's Top Matches,
\* some procurement session has an enabled operation that moves it to Rejected
C19_RejectAvailableAtGates ==
    \A i \in 1..Len(vendors) :
        (\/ vendors[i].status \in {"Awaiting Certificates", "Certificates Submitted"}
         \/ /\ vendors[i].status = "Pending"
            /\ \E s \in ProcSessions, k \in 1..TopMatches :
                   /\ AnalysisDrawn(s)
                   /\ k \in TopRanks(s)
                   /\ analysis_results[s].rows[k].idx = i) =>
            \E s \in ProcSessions : ENABLED RejectOf(s, i)

\* ------------------------------------------- specification of the write-backs
(***************************************************************************)
(* SpecRace: a vendor session and a procurement session.  A run either     *)
(* handles its button at once, or loads VENDORS_FILE, lets the other       *)
(* session's run pass and then handles its button on the frame it loaded   *)
(* and writes that frame back.                                             *)
(***************************************************************************)
RaceSessions == {"v1", "p1"}

NextRace ==
    \E s \in RaceSessions :
        \/ load_and_validate_df(s, MaxRuns)
        \/ Render(s)
        \/ \E q \in Quantities, ph \in TenDigitPhones, a \in Addresses :
              SubmitProposal(s, "Cement", q, 100, ph, a)
        \/ \E i \in 1..MaxProposals : Edit(s, i)
        \/ \E q \in Quantities, ph \in TenDigitPhones, a \in Addresses :
              SaveChanges(s, q, 200, ph, a)
        \/ Cancel(s)
        \/ \E i \in 1..MaxProposals : EmailedCertificates(s, i)
        \/ SaveRequirement(s, "Cement", 150, MaxWorkflowRequirements)
        \/ AnalyzeStep(s, {WeightSteps}, {NoAnswer})
        \/ \E k \in 1..TopMatches : Accept(s, k)
        \/ \E k \in 1..TopMatches : Reject(s, k)

SpecRace == Init /\ [][NextRace]_vars

\* C21: no step removes a proposal from the store, and a row position keeps
\* denoting the proposal of the same vendor and category
C21_IdentifierIsStable ==
    [][/\ Len(vendors') >= Len(vendors)
       /\ \A i \in 1..Min(Len(vendors), Len(vendors')) :
              /\ vendors'[i].submitted_by = vendors[i].submitted_by
              /\ vendors'[i].category = vendors[i].category]_vars

\* the columns in which two rows differ
ChangedFields(old, new) == {f \in DOMAIN old : old[f] # new[f]}

\* new is the frame old with the change of one handler: the status of one row,
\* the edit form's columns of one row, or a row added by df.loc on a missing label
OneChange(old, new) ==
    \/ /\ Len(new) = Len(old) + 1
       /\ SubSeq(new, 1, Len(old)) = old
       /\ IsNaNRow(new[Len(new)])
    \/ /\ Len(new) = Len(old)
       /\ \E i \in 1..Len(old) :
             /\ \A j \in 1..Len(old) \ {i} : new[j] = old[j]
             /\ \/ ChangedFields(old[i], new[i]) \subseteq {"status"}
                \/ ChangedFields(old[i], new[i]) \subseteq {"quantity", "rate", "address"}

\* C22: when a session that loaded before another session's write ends its run
\* (other than by appending a submission), either it wrote nothing or the store
\* is the frame it loaded with its own single change: the other session's
\* change is not in the store, and the handler is not refused
C22_LastWriteWins ==
    [][\A s \in RaceSessions :
          (/\ df[s].loaded
           /\ df[s].overtaken > 0
           /\ ~df'[s].loaded
           /\ ~\E q \in Quantities, ph \in TenDigitPhones, a \in Addresses :
                  SubmitProposal(s, "Cement", q, 100, ph, a))
          => \/ vendors' = vendors
             \/ OneChange(df[s].rows, vendors')]_vars

\* p1 has decided on the only proposal, and v1's Save Changes, on the frame
\* loaded before that decision, has put the proposal back to Pending with the
\* edited rate
C22_DecisionOverwritten ==
    /\ Len(vendors) = 1
    /\ vendors[1].status = "Pending"
    /\ vendors[1].rate = 200
    /\ analyzed_category["p1"] = "Cement"
    /\ ~analysis_results["p1"].set
    /\ edit_proposal_idx["v1"] = NoIdx

\* C23: every cached results row that carries the Accept and Reject buttons is
\* a proposal that is Pending in the store and of the selected category, and
\* the analysed category is the selected one
C23_OfferedRowsArePending ==
    \A s \in ProcSessions :
        (AnalysisDrawn(s) /\ analysis_results[s].set) =>
            \A k \in TopRanks(s) :
                \A idx \in {analysis_results[s].rows[k].idx} :
                    /\ idx \in 1..Len(vendors)
                    /\ vendors[idx].status = "Pending"
                    /\ vendors[idx].category = CurrentCategory(s)
                    /\ analyzed_category[s] = CurrentCategory(s)

\* C24: a Save Changes that changes the store, in a run that loaded the store
\* as it is, changes a proposal whose stored status is Pending
C24_SaveChangesOnlyPending ==
    [][\A s \in RaceSessions \cap VendorSessions :
          \A q \in Quantities, ph \in TenDigitPhones, a \in Addresses :
              (/\ ~df[s].loaded
               /\ SaveChanges(s, q, 200, ph, a)
               /\ vendors' # vendors)
              => vendors[edit_proposal_idx[s]].status = "Pending"]_vars

\* C25: a proposal is Reviewed exactly when the review store holds a review
\* with its proposal_index
C25_ReviewedIffReview ==
    \A i \in 1..Len(vendors) :
        vendors[i].status = "Reviewed"
            <=> \E r \in 1..Len(reviews) : reviews[r].proposal_index = i

\* ----------------------------------------------- specification of deliveries
(***************************************************************************)
(* SpecDelivery: two Accepted proposals; the vendors dispatch them with    *)
(* any text as the delivery person's name, the site sessions confirm       *)
(* receipt and review.                                                     *)
(***************************************************************************)
DeliveryNames == {"Ravi", "", "NA"}

accepted_proposal(user) ==
    [new_proposal(user, "Cement", 1, 100, "Kochi") EXCEPT !.status = "Accepted"]

InitDelivery ==
    /\ \E u1, u2 \in VendorSessions :
          vendors = <<accepted_proposal(u1), accepted_proposal(u2)>>
    /\ requirements = <<>>
    /\ reviews = <<>>
    /\ notifications = <<>>
    /\ df = [s \in Sessions |-> NoDf]
    /\ edit_proposal_idx = [s \in VendorSessions |-> NoIdx]
    /\ edit_req_idx = [s \in ProcSessions |-> NoIdx]
    /\ category_to_analyze = [s \in ProcSessions |-> None]
    /\ analysis_results = [s \in ProcSessions |-> NoResults]
    /\ analyzed_category = [s \in ProcSessions |-> None]

NextDelivery ==
    \/ \E s \in VendorSessions, i \in 1..MaxProposals, name \in DeliveryNames,
          phone \in PhoneInputs, dt \in DeliveryTimes :
          DispatchItem(s, i, name, phone, dt)
    \/ \E s \in SiteSessions : SiteStep(s, {5})

SpecDelivery == InitDelivery /\ [][NextDelivery]_vars

\* C26: every proposal that is Out for Delivery, Delivered or Reviewed has a
\* delivery person name that is not empty, a 10-digit delivery phone and a
\* scheduled datetime
C26_DispatchedHaveDeliveryDetails ==
    \A i \in 1..Len(vendors) :
        vendors[i].status \in {"Out for Delivery", "Delivered", "Reviewed"} =>
            /\ vendors[i].delivery_boy_name \notin {"", NaN}
            /\ IsValidPhone(vendors[i].delivery_boy_phone)
            /\ vendors[i].scheduled_delivery_datetime \in DeliveryTimes

\* C27: a Dispatch Item of a vendor session changes fields only of proposals
\* submitted by the session's user, and changes no proposal's submitted_by or
\* category
C27_VendorChangesOwnProposalsOnly ==
    [][\A s \in VendorSessions :
          (\E i \in 1..MaxProposals, name \in DeliveryNames, phone \in PhoneInputs,
              dt \in DeliveryTimes : DispatchItem(s, i, name, phone, dt))
          => /\ Len(vendors') = Len(vendors)
             /\ \A j \in 1..Len(vendors) :
                   /\ vendors'[j] # vendors[j] => vendors[j].submitted_by = username(s)
                   /\ vendors'[j].submitted_by = vendors[j].submitted_by
                   /\ vendors'[j].category = vendors[j].category]_vars

\* ------------------------------------------------ specification of progress
(***************************************************************************)
(* SpecLive: four Pending proposals of one category, more than the three   *)
(* rows that carry the Accept and Reject buttons; one session of each      *)
(* role, every run one step.  Each operation of the workflow is taken      *)
(* eventually when it stays possible: a user who sees the button presses   *)
(* it.                                                                     *)
(***************************************************************************)
LiveProposals == 4

LiveRates == [i \in 1..LiveProposals |-> 100 + 10 * i]

LiveRows ==
    [i \in 1..LiveProposals |-> new_proposal("v1", "Cement", 1, LiveRates[i], "Kochi")]

InitLive ==
    /\ vendors = LiveRows
    /\ requirements = <<>>
    /\ reviews = <<>>
    /\ notifications = <<>>
    /\ df = [s \in Sessions |-> NoDf]
    /\ edit_proposal_idx = [s \in VendorSessions |-> NoIdx]
    /\ edit_req_idx = [s \in ProcSessions |-> NoIdx]
    /\ category_to_analyze = [s \in ProcSessions |-> None]
    /\ analysis_results = [s \in ProcSessions |-> NoResults]
    /\ analyzed_category = [s \in ProcSessions |-> None]

LiveAddRequirement == SaveRequirement("p1", "Cement", 150, MaxWorkflowRequirements)

LiveAnalyze ==
    \E a \in [1..LiveProposals -> {NoAnswer}] :
        Analyze("p1", WeightSteps, WeightSteps, WeightSteps, a)

LiveDecide ==
    \/ \E k \in 1..TopMatches : Accept("p1", k)
    \/ \E k \in 1..TopMatches : Reject("p1", k)

LiveCertificates == \E i \in 1..LiveProposals : EmailedCertificates("v1", i)

LiveFinalDecide ==
    \/ \E i \in 1..LiveProposals : FinalAccept("p1", i)
    \/ \E i \in 1..LiveProposals : FinalReject("p1", i)

LiveDispatch ==
    \E i \in 1..LiveProposals, ph \in TenDigitPhones, dt \in DeliveryTimes :
        DispatchItem("v1", i, "Ravi", ph, dt)

LiveConfirmReceipt == \E i \in 1..LiveProposals : ConfirmReceipt("s1", i)

LiveReview == \E i \in 1..LiveProposals : SubmitReviewWithin("s1", i, 5, LiveProposals)

NextLive ==
    \/ LiveAddRequirement
    \/ LiveAnalyze
    \/ LiveDecide
    \/ LiveCertificates
    \/ LiveFinalDecide
    \/ LiveDispatch
    \/ LiveConfirmReceipt
    \/ LiveReview

SpecLive ==
    /\ InitLive
    /\ [][NextLive]_vars
    /\ WF_vars(LiveAddRequirement)
    /\ WF_vars(LiveAnalyze)
    /\ WF_vars(LiveDecide)
    /\ WF_vars(LiveCertificates)
    /\ WF_vars(LiveFinalDecide)
    /\ WF_vars(LiveDispatch)
    /\ WF_vars(LiveConfirmReceipt)
    /\ WF_vars(LiveReview)

====
